---------------------------- MODULE Spec2Model ----------------------------
(***************************************************************************)
(* Key-material acquisition and recovery pipeline of DeDRM_plugin:         *)
(*   - adobekey_windows.obtain_key_material : the Adobe/Windows registry   *)
(*     scan (locator + unwrap of the master key);                          *)
(*   - kindlekey_windows.getKindleInfoFiles : the Kindle locator;          *)
(*   - adobekey.obtain_key_material (Wine)  : the boundary transport;      *)
(*   - adobekey.adeptkeys / unpad           : the key decryptor.           *)
(* Strings are TLA+ strings, byte strings are sequences of 0..255.         *)
(***************************************************************************)
EXTENDS Integers, Sequences, FiniteSets, TLC

VARIABLES
    \* ---- adobekey_windows.obtain_key_material (registry scan) ----
    registry,          \* the HKEY_CURRENT_USER\Software\Adobe\Adept tree read by the scan
    pc,                \* position of the scan
    i,                 \* index of the top-level entry (plkparent)
    j,                 \* index of the child (plkkey)
    name_components,   \* fragments collected for the current record
    key,               \* the Key being filled for the current record
    keymaterial,       \* the KeyMaterial being built / returned
    error,             \* the exception that left obtain_key_material ("" if none)
    reads,             \* <<i, j>> of every child key the scan has opened
    \* ---- kindlekey_windows.getKindleInfoFiles (Kindle locator) ----
    khost,             \* the environment, registry and files the locator reads
    kpc,               \* position of the locator
    path,              \* the resolved local-application-data directory
    found,             \* has any key file been found
    kfile,             \* index of the next known file to look for
    kkeymaterial,      \* the (Kindle) KeyMaterial being built / returned
    kerror,            \* the exception that left getKindleInfoFiles ("" if none)
    \* ---- adobekey.obtain_key_material (Wine) and its delegate ----
    callers,           \* the invocations of obtain_key_material
    python,            \* does WinePythonCLI(wineprefix) find an interpreter
    dirExists,         \* does winekeysdir exist
    file,              \* winekeysdir/keymaterial.pickle
    start,             \* dirExists and file as they were before the call
    wpc,               \* position of each invocation
    delegate,          \* each invocation's subprocess: "none", "running", "exited"
    status,            \* exit status of each invocation's subprocess
    loaded,            \* the keymaterial each invocation unpickled
    wexc,              \* the exception in flight in / raised by each invocation
    wresult,           \* the KeyMaterial each invocation returned
    delegateFinds,     \* the KeyMaterials obtain_key_material may return in a delegate
    handle,            \* the file each invocation opened, and whose delegate wrote it
    writer,            \* the invocation whose delegate wrote the file (0: there is none)
    foreign,           \* <<p, op, q>>: p read, overwrote or deleted the file q's delegate wrote
    \* ---- adobekey.adeptkeys (Windows/Wine) ----
    apc,               \* position of adeptkeys
    akeymaterial,      \* keymaterial
    idx,               \* index of the next key of keymaterial.keys
    keys,              \* keys
    names,             \* names
    plains,            \* the CBC plaintexts AES produced so far
    aerror,            \* the exception that left adeptkeys ("" if none)
    \* ---- kindlekey_windows_cud.cli_main (Kindle unwrap delegate) ----
    argv,              \* argv[1:]
    disk,              \* the files of the machine, by absolute path
    diskStart,         \* disk as it was before the run
    dpapi,             \* what the operating system can unprotect: blob, entropy, data
    cpc,               \* position of cli_main
    filepath,          \* filepath
    keydata,           \* keydata
    unwrapped,         \* the arguments and the result of the native call
    cexit,             \* the exit status (-1 while running or after an exception)
    cerror,            \* the exception that left cli_main ("" if none)
    \* ---- adobekey.getkey and the tail of adobekey.cli_main ----
    entry,             \* "getkey" or "cli_main"
    platform,          \* "wine" (use_wine) or "mac" (isosx)
    found_keys,        \* what adeptkeys finds: raises, keys, names
    outdisk,           \* the files at and below outpath, by path
    outdiskStart,      \* outdisk as it was before the call
    outIsDir,          \* os.path.isdir(outpath)
    gpc,               \* position of getkey / cli_main
    gkeys,             \* keys
    gnames,            \* names
    keycount,          \* keycount
    name_index,        \* name_index
    outfile,           \* outfile
    saved,             \* for every key written: its index, its keycount, its outfile
    gresult,           \* the value returned ("" before the return)
    gerror,            \* the exception that left the function ("" if none)
    \* ---- adobekey.adeptkeys (Mac) ----
    actpath,           \* does findActivationDat find an activation.dat
    tree,              \* the credentials of activation.dat
    mpc,               \* position of adeptkeys
    userkey,           \* userkey as findtext returned it
    keyName,           \* keyName
    mkeys,             \* the keys returned
    mnames,            \* the names returned
    merror,            \* the exception that left adeptkeys ("" if none)
    \* ---- adobekey_windows.obtain_key_material: the entropy ----
    machine,           \* the volume serial, the cpuid words, the account names
    epc,               \* position in the lines that build the entropy
    serial,            \* serial
    vendor,            \* vendor
    signature,         \* signature
    user,              \* user (NoName for None)
    entropy            \* entropy

scanVars == <<registry, pc, i, j, name_components, key, keymaterial, error, reads>>

kindleVars == <<khost, kpc, path, found, kfile, kkeymaterial, kerror>>

wineVars == <<callers, python, dirExists, file, start, wpc, delegate, status, loaded,
              wexc, wresult, delegateFinds, handle, writer, foreign>>

adeptVars == <<apc, akeymaterial, idx, keys, names, plains, aerror>>

cudVars == <<argv, disk, diskStart, dpapi, cpc, filepath, keydata, unwrapped, cexit, cerror>>

saveVars == <<entry, platform, found_keys, outdisk, outdiskStart, outIsDir, gpc, gkeys,
              gnames, keycount, name_index, outfile, saved, gresult, gerror>>

macVars == <<actpath, tree, mpc, userkey, keyName, mkeys, mnames, merror>>

entropyVars == <<machine, epc, serial, vendor, signature, user, entropy>>

vars == <<scanVars, kindleVars, wineVars, adeptVars, cudVars, saveVars, macVars, entropyVars>>

\* what a step of one program leaves alone
notScan == <<kindleVars, wineVars, adeptVars, cudVars, saveVars, macVars, entropyVars>>
notKindle == <<scanVars, wineVars, adeptVars, cudVars, saveVars, macVars, entropyVars>>
notWine == <<scanVars, kindleVars, adeptVars, cudVars, saveVars, macVars, entropyVars>>
notAdept == <<scanVars, kindleVars, wineVars, cudVars, saveVars, macVars, entropyVars>>
notCud == <<scanVars, kindleVars, wineVars, adeptVars, saveVars, macVars, entropyVars>>
notSave == <<scanVars, kindleVars, wineVars, adeptVars, cudVars, macVars, entropyVars>>
notMac == <<scanVars, kindleVars, wineVars, adeptVars, cudVars, saveVars, entropyVars>>
notEntropy == <<scanVars, kindleVars, wineVars, adeptVars, cudVars, saveVars, macVars>>

(***************************************************************************)
(* Bounds of the model.                                                    *)
(***************************************************************************)
MaxEntries == 2        \* top-level slots of a registry tree
MaxChildren == 2       \* children of the detailed credential record
MaxKeys == 2           \* keys of a KeyMaterial written by the delegate

(***************************************************************************)
(* Python helpers.                                                         *)
(***************************************************************************)
\* s[n:] on a str
Drop(s, n) == IF Len(s) <= n THEN "" ELSE SubSeq(s, n + 1, Len(s))

\* "_".join(parts): the parts left to right, a "_" before each but the first
RECURSIVE JoinFrom(_, _, _)
JoinFrom(parts, k, acc) ==
    IF k > Len(parts) THEN acc
    ELSE JoinFrom(parts, k + 1, IF k = 1 THEN parts[k] ELSE acc \o "_" \o parts[k])

Join(parts) == JoinFrom(parts, 1, "")

(***************************************************************************)
(* adobekey_common: Key and KeyMaterial as constructed.                    *)
(***************************************************************************)
Key == [encrypted_private_key |-> "", uuid_name |-> ""]

KeyMaterial == [keykey |-> <<>>, keys |-> <<>>]

(***************************************************************************)
(* The registry the scan reads.  A slot of a numbered key is either absent *)
(* (OpenKey fails) or a key with an optional default value (its type) and, *)
(* for a child, optional "value" and "method" values.                      *)
(***************************************************************************)
\* for j in range(0, 16)
ChildScanRange == 16

Child(t, hv, v, hm, m) ==
    [present |-> TRUE, hasType |-> TRUE, type |-> t,
     hasValue |-> hv, value |-> v, hasMethod |-> hm, method |-> m]

AbsentChild ==
    [present |-> FALSE, hasType |-> FALSE, type |-> "",
     hasValue |-> FALSE, value |-> "", hasMethod |-> FALSE, method |-> ""]

UntypedChild == [AbsentChild EXCEPT !.present = TRUE]

UserChild      == Child("user", TRUE, "UUIDAAAA123456789", FALSE, "")
UserShortChild == Child("user", TRUE, "urn:uuid:", FALSE, "")
UserNoValue    == Child("user", FALSE, "", FALSE, "")
NameChild      == Child("username", TRUE, "a@b.com", TRUE, "email")
NameNoMethod   == Child("username", TRUE, "a@b.com", FALSE, "")
NameBare       == Child("username", FALSE, "", FALSE, "")
PlkChild       == Child("privateLicenseKey", TRUE, "QkxPQg==", FALSE, "")
PlkEmpty       == Child("privateLicenseKey", TRUE, "", FALSE, "")
PlkNoValue     == Child("privateLicenseKey", FALSE, "", FALSE, "")
OtherChild     == Child("licenseCertificate", TRUE, "MIIC", FALSE, "")

\* the kinds of child combined freely
ChildKinds == {UserChild, NameChild, PlkChild, PlkEmpty, OtherChild, AbsentChild}

\* the kinds of child with a value missing or degenerate
OddKinds ==
    {UserShortChild, UserNoValue, NameNoMethod, NameBare, PlkNoValue, UntypedChild}

Entry(t, ch) == [present |-> TRUE, hasType |-> TRUE, type |-> t, children |-> ch]

AbsentEntry == [present |-> FALSE, hasType |-> FALSE, type |-> "", children |-> <<>>]

UntypedEntry == [AbsentEntry EXCEPT !.present = TRUE]

SeqsUpTo(S, n) == UNION {[1..m -> S] : m \in 0..n}

\* ChildScanRange children of no interest, then the given tail
Filler(tail) == [k \in 1..ChildScanRange |-> OtherChild] \o tail

\* children lists of the detailed credential record
ChildLists ==
    SeqsUpTo(ChildKinds, MaxChildren)
    \cup {<<a, b, c>> : a \in {UserChild, NameChild, PlkChild},
                        b \in {UserChild, NameChild, PlkChild},
                        c \in {UserChild, NameChild, PlkChild}}
    \cup UNION {{<<o>>, <<o, PlkChild>>, <<PlkChild, o>>, <<UserChild, o, PlkChild>>} :
                o \in OddKinds}
    \cup {Filler(<<PlkChild>>), Filler(<<UserChild, PlkChild>>),
          [k \in 1..(ChildScanRange - 1) |-> OtherChild] \o <<PlkChild, UserChild>>}

\* the entries of a tree without a detailed record
SimpleEntries ==
    {AbsentEntry, UntypedEntry, Entry("device", <<>>),
     Entry("credentials", <<>>), Entry("credentials", <<PlkChild>>)}

\* the entries that may surround the detailed record
ContextEntries == {AbsentEntry, Entry("device", <<>>), Entry("credentials", <<PlkChild>>)}

DetailedEntries == {Entry("credentials", ch) : ch \in ChildLists}

\* trees of at most MaxEntries slots, at most one of them detailed
Trees ==
    SeqsUpTo(SimpleEntries, MaxEntries)
    \cup UNION {{pre \o <<d>> \o post :
                    d \in DetailedEntries,
                    post \in SeqsUpTo(ContextEntries, MaxEntries - 1 - Len(pre))} :
                pre \in SeqsUpTo(ContextEntries, MaxEntries - 1)}

\* device: does Software\Adobe\Adept\Device hold a "key" value;
\* unwrap: what CryptUnprotectData does with it;
\* activation: does Software\Adobe\Adept\Activation exist; entries: its slots
Registries ==
    {[device |-> FALSE, unwrap |-> "fail", activation |-> FALSE, entries |-> <<>>],
     [device |-> TRUE, unwrap |-> "fail", activation |-> TRUE, entries |-> <<>>],
     [device |-> TRUE, unwrap |-> "key", activation |-> FALSE, entries |-> <<>>]}
    \cup {[device |-> TRUE, unwrap |-> "empty", activation |-> TRUE, entries |-> t] :
            t \in SeqsUpTo(SimpleEntries, MaxEntries)}
    \cup {[device |-> TRUE, unwrap |-> "key", activation |-> TRUE, entries |-> t] :
            t \in Trees}

\* winreg.OpenKey(parent, "%04d" % (n,)) on a list of slots
SlotAt(slots, n) ==
    IF n + 1 <= Len(slots) THEN slots[n + 1] ELSE AbsentEntry

ChildAt(slots, n) ==
    IF n + 1 <= Len(slots) THEN slots[n + 1] ELSE AbsentChild

\* what CryptUnprotectData(device, entropy) returns when it succeeds
DeviceKey == [k \in 1..16 |-> k]

(***************************************************************************)
(* adobekey_windows.obtain_key_material, one step per registry access.     *)
(***************************************************************************)
Raise(e) ==
    /\ pc' = "raised"
    /\ error' = e

\* regkey = OpenKey(cuser, DEVICE_KEY_PATH); device = QueryValueEx(regkey, "key")
OpenDevice ==
    /\ pc = "start"
    /\ IF registry.device
       THEN pc' = "unwrap" /\ UNCHANGED error
       ELSE Raise("ADEPTError: Adobe Digital Editions not activated")
    /\ UNCHANGED <<registry, i, j, name_components, key, keymaterial, reads>>
    /\ UNCHANGED notScan

\* keymaterial = KeyMaterial(); keymaterial.keykey = CryptUnprotectData(device, entropy)
Unwrap ==
    /\ pc = "unwrap"
    /\ IF registry.unwrap = "fail"
       THEN /\ Raise("ADEPTError: Failed to decrypt user key key (sic)")
            /\ keymaterial' = KeyMaterial
       ELSE /\ pc' = "openroot"
            /\ keymaterial' = [KeyMaterial EXCEPT
                   !.keykey = IF registry.unwrap = "key" THEN DeviceKey ELSE <<>>]
            /\ UNCHANGED error
    /\ UNCHANGED <<registry, i, j, name_components, key, reads>>
    /\ UNCHANGED notScan

\* plkroot = OpenKey(cuser, PRIVATE_LICENCE_KEY_PATH); i = -1
OpenRoot ==
    /\ pc = "openroot"
    /\ IF registry.activation
       THEN pc' = "loop" /\ i' = -1 /\ UNCHANGED error
       ELSE Raise("ADEPTError: Could not locate ADE activation") /\ UNCHANGED i
    /\ UNCHANGED <<registry, j, name_components, key, keymaterial, reads>>
    /\ UNCHANGED notScan

\* the head of the while loop: i = i + 1, open entry i, read its type
OpenParent ==
    /\ pc = "loop"
    /\ i' = i + 1
    /\ LET plkparent == SlotAt(registry.entries, i + 1) IN
         IF ~plkparent.present
         THEN \* "No more keys": break, return keymaterial
              /\ pc' = "done"
              /\ UNCHANGED <<error, j, name_components, key>>
         ELSE IF ~plkparent.hasType
         THEN \* QueryValueEx(plkparent, None) raises, nothing catches it
              /\ Raise("FileNotFoundError")
              /\ UNCHANGED <<j, name_components, key>>
         ELSE IF plkparent.type # "credentials"
         THEN \* continue
              /\ pc' = "loop"
              /\ UNCHANGED <<error, j, name_components, key>>
         ELSE /\ pc' = "children"
              /\ key' = Key
              /\ name_components' = <<>>
              /\ j' = 0
              /\ UNCHANGED error
    /\ UNCHANGED <<registry, keymaterial, reads>>
    /\ UNCHANGED notScan

\* InChildRange with the bound off by one: range(0, 17)
InChildRangeOffByOne(n) == n <= ChildScanRange

\* is j one of the indices of "for j in range(0, 16)"
InChildRange(n) == n < ChildScanRange

\* ChildFragments with the account string put before its method tag
ChildFragmentsSwapped(plkkey) ==
    IF plkkey.type = "user"
    THEN <<Drop(plkkey.value, 9)>>
    ELSE IF plkkey.type = "username"
    THEN (IF plkkey.hasValue THEN <<plkkey.value>> ELSE <<>>)
         \o (IF plkkey.hasMethod THEN <<plkkey.method>> ELSE <<>>)
    ELSE <<>>

\* ChildFragments with 5 characters stripped from the user value, not 9
ChildFragmentsStrip5(plkkey) ==
    IF plkkey.type = "user"
    THEN <<Drop(plkkey.value, 5)>>
    ELSE IF plkkey.type = "username"
    THEN (IF plkkey.hasMethod THEN <<plkkey.method>> ELSE <<>>)
         \o (IF plkkey.hasValue THEN <<plkkey.value>> ELSE <<>>)
    ELSE <<>>

\* what one child adds to name_components
ChildFragments(plkkey) ==
    IF plkkey.type = "user"
    THEN <<Drop(plkkey.value, 9)>>
    ELSE IF plkkey.type = "username"
    THEN (IF plkkey.hasMethod THEN <<plkkey.method>> ELSE <<>>)
         \o (IF plkkey.hasValue THEN <<plkkey.value>> ELSE <<>>)
    ELSE <<>>

\* does the body of the for loop raise on this child
ChildRaises(plkkey) ==
    \/ ~plkkey.hasType
    \/ plkkey.type \in {"user", "privateLicenseKey"} /\ ~plkkey.hasValue

\* one iteration of "for j in range(0, 16)"
ScanChild ==
    /\ pc = "children"
    /\ InChildRange(j)
    /\ LET plkkey == ChildAt(SlotAt(registry.entries, i).children, j) IN
         IF ~plkkey.present
         THEN \* except (WindowsError, FileNotFoundError): break
              /\ pc' = "finish"
              /\ UNCHANGED <<error, j, name_components, key, reads>>
         ELSE /\ reads' = reads \cup {<<i, j>>}
              /\ IF ChildRaises(plkkey)
                 THEN /\ Raise("FileNotFoundError")
                      /\ UNCHANGED <<j, name_components, key>>
                 ELSE /\ name_components' = name_components \o ChildFragments(plkkey)
                      /\ key' = IF plkkey.type = "privateLicenseKey"
                                THEN [key EXCEPT !.encrypted_private_key = plkkey.value]
                                ELSE key
                      /\ j' = j + 1
                      /\ pc' = "children"
                      /\ UNCHANGED error
    /\ UNCHANGED <<registry, i, keymaterial>>
    /\ UNCHANGED notScan

\* range(0, 16) is exhausted
EndChildren ==
    /\ pc = "children"
    /\ ~InChildRange(j)
    /\ pc' = "finish"
    /\ UNCHANGED <<registry, i, j, name_components, key, keymaterial, error, reads>>
    /\ UNCHANGED notScan

\* the label of a key whose blob is not empty
Label(parts) == IF Len(parts) = 0 THEN "Unknown" ELSE Join(parts)

\* the Key that the end of the loop body appends
FinishedKey(k, parts) ==
    IF Len(k.encrypted_private_key) > 0
    THEN [k EXCEPT !.uuid_name = Label(parts)]
    ELSE k

\* the keys after the loop body ends with Key k
AppendKey(ks, k) == Append(ks, k)

\* the end of the loop body: label the key, keymaterial.keys.append(key)
FinishRecord ==
    /\ pc = "finish"
    /\ key' = FinishedKey(key, name_components)
    /\ keymaterial' = [keymaterial EXCEPT !.keys = AppendKey(@, key')]
    /\ pc' = "loop"
    /\ UNCHANGED <<registry, i, j, name_components, error, reads>>
    /\ UNCHANGED notScan

ScanInit ==
    /\ registry \in Registries
    /\ pc = "start"
    /\ i = -1
    /\ j = 0
    /\ name_components = <<>>
    /\ key = Key
    /\ keymaterial = KeyMaterial
    /\ error = ""
    /\ reads = {}

\* obtain_key_material is not running
ScanIdle ==
    /\ registry = [device |-> FALSE, unwrap |-> "fail", activation |-> FALSE,
                   entries |-> <<>>]
    /\ pc = "idle"
    /\ i = -1
    /\ j = 0
    /\ name_components = <<>>
    /\ key = Key
    /\ keymaterial = KeyMaterial
    /\ error = ""
    /\ reads = {}

(***************************************************************************)
(* kindlekey_common: KeyEnvData and KeyMaterial as constructed.            *)
(***************************************************************************)
KeyEnvData == [username |-> "", idstrings |-> <<>>]

KindleKeyMaterial == [env |-> KeyEnvData, filenames |-> <<>>]

(***************************************************************************)
(* kindlekey_windows.getKindleInfoFiles.                                   *)
(***************************************************************************)
\* the five known key files, below the local-application-data directory
KnownFiles ==
    <<"\\Amazon\\Kindle\\storage\\.kinf2018",
      "\\Amazon\\Kindle\\storage\\.kinf2011",
      "\\Amazon\\Kindle\\storage\\rainier.2.1.1.kinf",
      "\\Amazon\\Kindle For PC\\storage\\rainier.2.1.1.kinf",
      "\\Amazon\\Kindle For PC\\{AMAwzsaPaaZAzmZzZQzgZCAkZ3AjA_AY}\\kindle.info">>

EnvPath       == "C:\\Users\\alice\\AppData\\Local"
UserShellPath == "D:\\Profiles\\alice\\Local"
ShellPath     == "E:\\Legacy\\alice\\Local"

\* A registry value "Local AppData": "nokey" (the key cannot be opened),
\* "novalue" (the key has no such value), "notdir" (the value names no
\* directory), "dir" (it names a directory).
RegFolderStates == {"nokey", "novalue", "notdir", "dir"}

\* hasEnv: is LOCALAPPDATA in os.environ; envIsDir: is it a directory;
\* userShell, shell: the two registry shell-folder values;
\* files: the indices of the known files that exist below the directory
KindleHost(he, ed, us, sh, fs) ==
    [hasEnv |-> he, envIsDir |-> ed, userShell |-> us, shell |-> sh, files |-> fs]

KindleHosts ==
    {KindleHost(TRUE, TRUE, "nokey", "nokey", fs) : fs \in SUBSET (1..Len(KnownFiles))}
    \cup {KindleHost(TRUE, FALSE, "dir", "dir", fs) : fs \in {{}, {1, 5}}}
    \cup {KindleHost(FALSE, FALSE, us, "dir", {1, 5}) : us \in {"nokey", "novalue"}}
    \cup {KindleHost(FALSE, FALSE, "dir", "nokey", fs) : fs \in SUBSET (1..Len(KnownFiles))}
    \cup {KindleHost(FALSE, FALSE, "notdir", sh, {2}) : sh \in {"nokey", "novalue", "notdir"}}
    \cup {KindleHost(FALSE, FALSE, "notdir", "dir", fs) : fs \in SUBSET (1..Len(KnownFiles))}

KRaise(e) ==
    /\ kpc' = "raised"
    /\ kerror' = e

\* keymaterial = KeyMaterial(); env.idstrings = [GetIDString()]; env.username = GetUserName()
KindleEnv ==
    /\ kpc = "start"
    /\ kkeymaterial' = [KindleKeyMaterial EXCEPT
           !.env = [username |-> "alice", idstrings |-> <<"305419896">>]]
    /\ kpc' = "resolve"
    /\ UNCHANGED <<khost, path, found, kfile, kerror>>
    /\ UNCHANGED notKindle

\* does reading a shell-folder value raise (an OSError, which "except RegError"
\* does not catch: RegError is a class of this module that nothing raises)
RegReadRaises(st) == st \in {"nokey", "novalue"}

\* path = "" and the if/else that resolves it from LOCALAPPDATA or the registry
ResolvePath ==
    /\ kpc = "resolve"
    /\ IF khost.hasEnv
       THEN /\ path' = IF khost.envIsDir THEN EnvPath ELSE ""
            /\ kpc' = "search"
            /\ UNCHANGED kerror
       ELSE IF RegReadRaises(khost.userShell)
       THEN KRaise("OSError") /\ path' = ""
       ELSE IF khost.userShell = "dir"
       THEN /\ path' = UserShellPath
            /\ kpc' = "search"
            /\ UNCHANGED kerror
       ELSE IF RegReadRaises(khost.shell)
       THEN KRaise("OSError") /\ path' = ""
       ELSE /\ path' = IF khost.shell = "dir" THEN ShellPath ELSE ""
            /\ kpc' = "search"
            /\ UNCHANGED kerror
    /\ UNCHANGED <<khost, found, kfile, kkeymaterial>>
    /\ UNCHANGED notKindle

\* found = False; if path == "": nothing is looked for
StartSearch ==
    /\ kpc = "search"
    /\ found' = FALSE
    /\ kfile' = 1
    /\ kpc' = IF path = "" THEN "return" ELSE "files"
    /\ UNCHANGED <<khost, path, kkeymaterial, kerror>>
    /\ UNCHANGED notKindle

\* os.path.isfile(kinfopath)
IsFile(n) == n \in khost.files

\* CheckFile putting the newest find first
CheckFilePrepend ==
    /\ kpc = "files"
    /\ kfile <= Len(KnownFiles)
    /\ LET kinfopath == path \o KnownFiles[kfile] IN
         IF IsFile(kfile)
         THEN /\ found' = TRUE
              /\ kkeymaterial' = [kkeymaterial EXCEPT !.filenames = <<kinfopath>> \o @]
         ELSE UNCHANGED <<found, kkeymaterial>>
    /\ kfile' = kfile + 1
    /\ kpc' = IF kfile = Len(KnownFiles) THEN "return" ELSE "files"
    /\ UNCHANGED <<khost, path, kerror>>
    /\ UNCHANGED notKindle

\* one of the five "look for" blocks
CheckFile ==
    /\ kpc = "files"
    /\ kfile <= Len(KnownFiles)
    /\ LET kinfopath == path \o KnownFiles[kfile] IN
         IF IsFile(kfile)
         THEN /\ found' = TRUE
              /\ kkeymaterial' = [kkeymaterial EXCEPT !.filenames = Append(@, kinfopath)]
         ELSE UNCHANGED <<found, kkeymaterial>>
    /\ kfile' = kfile + 1
    /\ kpc' = IF kfile = Len(KnownFiles) THEN "return" ELSE "files"
    /\ UNCHANGED <<khost, path, kerror>>
    /\ UNCHANGED notKindle

\* if not found: print(...); return keymaterial
KindleReturn ==
    /\ kpc = "return"
    /\ kpc' = "done"
    /\ UNCHANGED <<khost, path, found, kfile, kkeymaterial, kerror>>
    /\ UNCHANGED notKindle

KindleInit ==
    /\ khost \in KindleHosts
    /\ kpc = "start"
    /\ path = ""
    /\ found = FALSE
    /\ kfile = 1
    /\ kkeymaterial = KindleKeyMaterial
    /\ kerror = ""

\* getKindleInfoFiles is not running
KindleIdle ==
    /\ khost = KindleHost(FALSE, FALSE, "nokey", "nokey", {})
    /\ kpc = "idle"
    /\ path = ""
    /\ found = FALSE
    /\ kfile = 1
    /\ kkeymaterial = KindleKeyMaterial
    /\ kerror = ""

(***************************************************************************)
(* adobekey.obtain_key_material (use_wine) and the delegate it runs,       *)
(* adobekey_windows.cli_main.  The file system is the directory            *)
(* winekeysdir and the file keymaterial.pickle in it.                      *)
(***************************************************************************)
NoFile == [exists |-> FALSE, valid |-> FALSE, content |-> KeyMaterial]

\* a file pickle.load cannot read
CorruptFile == [exists |-> TRUE, valid |-> FALSE, content |-> KeyMaterial]

PickleOf(km) == [exists |-> TRUE, valid |-> TRUE, content |-> km]

\* the keys of the KeyMaterial a delegate may find
DelegateKeys ==
    {Key,
     [encrypted_private_key |-> "QkxPQg==", uuid_name |-> "Unknown"],
     [encrypted_private_key |-> "QkxPQw==", uuid_name |-> "23456789_email_a@b.com"]}

\* what adobekey_windows.obtain_key_material may return in the delegate
DelegateOutputs ==
    {[keykey |-> kk, keys |-> ks] :
        kk \in {<<>>, DeviceKey}, ks \in SeqsUpTo(DelegateKeys, MaxKeys)}

\* LocateInterp with the missing interpreter noticed only after the directory
\* has been prepared
LocateInterpLate(p) ==
    /\ wpc[p] = "start"
    /\ wpc' = [wpc EXCEPT ![p] = "checkdir"]
    /\ UNCHANGED <<callers, python, dirExists, file, start, delegate, status, loaded,
                   wexc, wresult>>
    /\ UNCHANGED <<delegateFinds, handle, writer, foreign>>
    /\ UNCHANGED notWine

\* pyexec = WinePythonCLI(wineprefix), or return KeyMaterial()
LocateInterp(p) ==
    /\ wpc[p] = "start"
    /\ IF python
       THEN /\ wpc' = [wpc EXCEPT ![p] = "checkdir"]
            /\ UNCHANGED wresult
       ELSE /\ wpc' = [wpc EXCEPT ![p] = "returned"]
            /\ wresult' = [wresult EXCEPT ![p] = KeyMaterial]
    /\ UNCHANGED <<callers, python, dirExists, file, start, delegate, status, loaded, wexc>>
    /\ UNCHANGED <<delegateFinds, handle, writer, foreign>>
    /\ UNCHANGED notWine

\* if not os.path.exists(outdirpath)
CheckDir(p) ==
    /\ wpc[p] = "checkdir"
    /\ wpc' = [wpc EXCEPT ![p] = IF dirExists THEN "call" ELSE "makedirs"]
    /\ UNCHANGED <<callers, python, dirExists, file, start, delegate, status, loaded,
                   wexc, wresult>>
    /\ UNCHANGED <<delegateFinds, handle, writer, foreign>>
    /\ UNCHANGED notWine

\* os.makedirs(outdirpath)
MakeDirs(p) ==
    /\ wpc[p] = "makedirs"
    /\ IF dirExists
       THEN /\ wpc' = [wpc EXCEPT ![p] = "raised"]
            /\ wexc' = [wexc EXCEPT ![p] = "FileExistsError"]
            /\ UNCHANGED dirExists
       ELSE /\ dirExists' = TRUE
            /\ wpc' = [wpc EXCEPT ![p] = "call"]
            /\ UNCHANGED wexc
    /\ UNCHANGED <<callers, python, file, start, delegate, status, loaded, wresult>>
    /\ UNCHANGED <<delegateFinds, handle, writer, foreign>>
    /\ UNCHANGED notWine

\* pyexec.check_call([scriptpath, outpath]): the subprocess starts, or the
\* call raises at once
Spawn(p) ==
    /\ wpc[p] = "call"
    /\ \/ /\ delegate' = [delegate EXCEPT ![p] = "running"]
          /\ wpc' = [wpc EXCEPT ![p] = "wait"]
       \/ /\ wpc' = [wpc EXCEPT ![p] = "except"]
          /\ UNCHANGED delegate
    /\ UNCHANGED <<callers, python, dirExists, file, start, status, loaded, wexc, wresult>>
    /\ UNCHANGED <<delegateFinds, handle, writer, foreign>>
    /\ UNCHANGED notWine

\* the delegate: keymaterial = obtain_key_material();
\* with open(outpath, "wb"): pickle.dump(keymaterial, ...), whole or cut short
DelegateDump(p) ==
    /\ delegate[p] = "running"
    /\ \E f \in {PickleOf(km) : km \in delegateFinds} \cup {CorruptFile} :
          file' = f
    /\ writer' = p
    /\ foreign' = IF file.exists /\ writer \notin {0, p}
                  THEN foreign \cup {<<p, "overwrite", writer>>} ELSE foreign
    /\ \E rc \in {0, 1} : status' = [status EXCEPT ![p] = rc]
    /\ delegate' = [delegate EXCEPT ![p] = "exited"]
    /\ UNCHANGED <<callers, python, dirExists, start, wpc, loaded, wexc, wresult>>
    /\ UNCHANGED <<delegateFinds, handle>>
    /\ UNCHANGED notWine

\* the delegate ends before it writes: obtain_key_material raised
DelegateFail(p) ==
    /\ delegate[p] = "running"
    /\ status' = [status EXCEPT ![p] = 1]
    /\ delegate' = [delegate EXCEPT ![p] = "exited"]
    /\ UNCHANGED <<callers, python, dirExists, file, start, wpc, loaded, wexc, wresult>>
    /\ UNCHANGED <<delegateFinds, handle, writer, foreign>>
    /\ UNCHANGED notWine

\* check_call returns once the subprocess has exited, or raises on its status
WaitDelegate(p) ==
    /\ wpc[p] = "wait"
    /\ delegate[p] = "exited"
    /\ wpc' = [wpc EXCEPT ![p] = IF status[p] = 0 THEN "open" ELSE "except"]
    /\ UNCHANGED <<callers, python, dirExists, file, start, delegate, status, loaded,
                   wexc, wresult>>
    /\ UNCHANGED <<delegateFinds, handle, writer, foreign>>
    /\ UNCHANGED notWine

\* CatchCallError without the except clause: the error of check_call goes on
CatchCallErrorPropagates(p) ==
    /\ wpc[p] = "except"
    /\ wpc' = [wpc EXCEPT ![p] = "raised"]
    /\ wexc' = [wexc EXCEPT ![p] = "CalledProcessError"]
    /\ UNCHANGED <<callers, python, dirExists, file, start, delegate, status, loaded,
                   wresult>>
    /\ UNCHANGED <<delegateFinds, handle, writer, foreign>>
    /\ UNCHANGED notWine

\* except Exception as e: print(...)
CatchCallError(p) ==
    /\ wpc[p] = "except"
    /\ wpc' = [wpc EXCEPT ![p] = "open"]
    /\ UNCHANGED <<callers, python, dirExists, file, start, delegate, status, loaded,
                   wexc, wresult>>
    /\ UNCHANGED <<delegateFinds, handle, writer, foreign>>
    /\ UNCHANGED notWine

\* with open(outpath, "rb") as keymaterialfile
OpenFile(p) ==
    /\ wpc[p] = "open"
    /\ IF file.exists
       THEN /\ wpc' = [wpc EXCEPT ![p] = "load"]
            /\ UNCHANGED wexc
       ELSE /\ wpc' = [wpc EXCEPT ![p] = "finally"]
            /\ wexc' = [wexc EXCEPT ![p] = "FileNotFoundError"]
    /\ UNCHANGED <<callers, python, dirExists, file, start, delegate, status, loaded,
                   wresult>>
    /\ handle' = [handle EXCEPT ![p] = [file |-> file, writer |-> writer]]
    /\ UNCHANGED <<delegateFinds, writer, foreign>>
    /\ UNCHANGED notWine

\* what the open file of p may hold when it is read: what it held when it was
\* opened, or what the path holds now (another delegate wrote to it since)
OpenedFiles(p) ==
    {handle[p]} \cup (IF file.exists THEN {[file |-> file, writer |-> writer]} ELSE {})

\* keymaterial = pickle.load(keymaterialfile)
LoadFile(p) ==
    /\ wpc[p] = "load"
    /\ \E h \in OpenedFiles(p) :
          /\ IF h.file.valid
             THEN /\ loaded' = [loaded EXCEPT ![p] = h.file.content]
                  /\ UNCHANGED wexc
             ELSE /\ wexc' = [wexc EXCEPT ![p] = "UnpicklingError"]
                  /\ UNCHANGED loaded
          /\ foreign' = IF h.writer \notin {0, p}
                        THEN foreign \cup {<<p, "read", h.writer>>} ELSE foreign
    /\ wpc' = [wpc EXCEPT ![p] = "finally"]
    /\ UNCHANGED <<callers, python, dirExists, file, start, delegate, status, wresult>>
    /\ UNCHANGED <<delegateFinds, handle, writer>>
    /\ UNCHANGED notWine

\* RemoveFile with os.remove at the end of the try body instead of in finally
RemoveOnSuccess(p) ==
    /\ wpc[p] = "finally"
    /\ IF wexc[p] # ""
       THEN /\ wpc' = [wpc EXCEPT ![p] = "raised"]
            /\ UNCHANGED <<file, wresult, writer>>
       ELSE /\ file' = NoFile
            /\ writer' = 0
            /\ wpc' = [wpc EXCEPT ![p] = "returned"]
            /\ wresult' = [wresult EXCEPT ![p] = loaded[p]]
    /\ UNCHANGED <<callers, python, dirExists, start, delegate, status, loaded, wexc>>
    /\ UNCHANGED <<delegateFinds, handle, foreign>>
    /\ UNCHANGED notWine

\* finally: os.remove(outpath); then return keymaterial, or the exception goes on
RemoveFile(p) ==
    /\ wpc[p] = "finally"
    /\ IF file.exists
       THEN /\ file' = NoFile
            /\ writer' = 0
            /\ foreign' = IF writer \notin {0, p}
                          THEN foreign \cup {<<p, "delete", writer>>} ELSE foreign
            /\ IF wexc[p] = ""
               THEN /\ wpc' = [wpc EXCEPT ![p] = "returned"]
                    /\ wresult' = [wresult EXCEPT ![p] = loaded[p]]
               ELSE /\ wpc' = [wpc EXCEPT ![p] = "raised"]
                    /\ UNCHANGED wresult
            /\ UNCHANGED wexc
       ELSE /\ wpc' = [wpc EXCEPT ![p] = "raised"]
            /\ wexc' = [wexc EXCEPT ![p] = "FileNotFoundError"]
            /\ UNCHANGED <<file, wresult, writer, foreign>>
    /\ UNCHANGED <<callers, python, dirExists, start, delegate, status, loaded>>
    /\ UNCHANGED <<delegateFinds, handle>>
    /\ UNCHANGED notWine

WineInit ==
    /\ callers = {1}
    /\ python \in BOOLEAN
    /\ dirExists \in BOOLEAN
    /\ file = NoFile
    /\ start = [dirExists |-> dirExists, file |-> file]
    /\ wpc = [p \in callers |-> "start"]
    /\ delegate = [p \in callers |-> "none"]
    /\ status = [p \in callers |-> 0]
    /\ loaded = [p \in callers |-> KeyMaterial]
    /\ wexc = [p \in callers |-> ""]
    /\ wresult = [p \in callers |-> KeyMaterial]
    /\ delegateFinds = DelegateOutputs
    /\ handle = [p \in callers |-> [file |-> NoFile, writer |-> 0]]
    /\ writer = 0
    /\ foreign = {}

\* two invocations with the same alfdir at once, on a machine whose registry
\* holds one key
ConcurrentInit ==
    /\ callers = {1, 2}
    /\ python \in BOOLEAN
    /\ dirExists \in BOOLEAN
    /\ file = NoFile
    /\ start = [dirExists |-> dirExists, file |-> file]
    /\ wpc = [p \in callers |-> "start"]
    /\ delegate = [p \in callers |-> "none"]
    /\ status = [p \in callers |-> 0]
    /\ loaded = [p \in callers |-> KeyMaterial]
    /\ wexc = [p \in callers |-> ""]
    /\ wresult = [p \in callers |-> KeyMaterial]
    /\ delegateFinds = {[keykey |-> DeviceKey,
                         keys |-> <<[encrypted_private_key |-> "QkxPQg==",
                                     uuid_name |-> "Unknown"]>>]}
    /\ handle = [p \in callers |-> [file |-> NoFile, writer |-> 0]]
    /\ writer = 0
    /\ foreign = {}

\* obtain_key_material (Wine) is not running
WineIdle ==
    /\ callers = {}
    /\ python = FALSE
    /\ dirExists = FALSE
    /\ file = NoFile
    /\ start = [dirExists |-> dirExists, file |-> file]
    /\ wpc = <<>>
    /\ delegate = <<>>
    /\ status = <<>>
    /\ loaded = <<>>
    /\ wexc = <<>>
    /\ wresult = <<>>
    /\ delegateFinds = {}
    /\ handle = <<>>
    /\ writer = 0
    /\ foreign = {}

(***************************************************************************)
(* adobekey.unpad and adobekey.adeptkeys (iswindows or use_wine).          *)
(***************************************************************************)
\* data[:-n] on bytes
SliceToMinus(data, n) ==
    LET stop == IF n = 0 THEN 0
                ELSE IF Len(data) - n < 0 THEN 0 ELSE Len(data) - n
    IN SubSeq(data, 1, stop)

\* data[n:] on bytes
SliceFrom(data, n) == SubSeq(data, n + 1, Len(data))

\* unpad(data): pad_len = data[-1]; return data[:-pad_len]
unpad(data) == SliceToMinus(data, data[Len(data)])

\* the CBC plaintexts AES.decrypt may produce: whole blocks of any bytes
BlockLens == {16, 48}
LastBytes == {0, 1, 6, 16, 17, 255}
Plaintext(len, last) == [k \in 1..len |-> IF k = len THEN last ELSE k]
Plaintexts == {Plaintext(len, last) : len \in BlockLens, last \in LastBytes}

\* keymaterial = obtain_key_material(alfdir, wineprefix)
Obtain ==
    /\ apc = "obtain"
    /\ wpc[1] \in {"returned", "raised"}
    /\ IF wpc[1] = "returned"
       THEN /\ akeymaterial' = wresult[1]
            /\ apc' = "check"
            /\ UNCHANGED aerror
       ELSE /\ apc' = "raised"
            /\ aerror' = wexc[1]
            /\ UNCHANGED akeymaterial
    /\ UNCHANGED <<idx, keys, names, plains>>
    /\ UNCHANGED notAdept

\* KeykeyMissing with the test for an empty keykey lost
KeykeyNeverMissing(keykey) == Len(keykey) < 0

\* does adeptkeys refuse this keykey
KeykeyMissing(keykey) == Len(keykey) = 0

\* if len(keymaterial.keykey) == 0: raise ADEPTError; keys = []; names = []
CheckKeykey ==
    /\ apc = "check"
    /\ IF KeykeyMissing(akeymaterial.keykey)
       THEN /\ apc' = "raised"
            /\ aerror' = "ADEPTError: Could not locate privateLicenseKey"
       ELSE /\ apc' = "loop"
            /\ UNCHANGED aerror
    /\ keys' = <<>>
    /\ names' = <<>>
    /\ idx' = 1
    /\ UNCHANGED <<akeymaterial, plains>>
    /\ UNCHANGED notAdept

\* one iteration of "for key in keymaterial.keys": the plaintext is <<>> for
\* an empty blob and any whole blocks otherwise
DecryptKey ==
    /\ apc = "loop"
    /\ idx <= Len(akeymaterial.keys)
    /\ \E data \in IF akeymaterial.keys[idx].encrypted_private_key = ""
                   THEN {<<>>} ELSE Plaintexts :
          /\ plains' = Append(plains, data)
          /\ IF Len(data) = 0
             THEN \* data[-1]
                  /\ apc' = "raised"
                  /\ aerror' = "IndexError"
                  /\ UNCHANGED <<keys, names, idx>>
             ELSE /\ keys' = Append(keys, SliceFrom(unpad(data), 26))
                  /\ names' = Append(names, akeymaterial.keys[idx].uuid_name)
                  /\ idx' = idx + 1
                  /\ UNCHANGED <<apc, aerror>>
    /\ UNCHANGED akeymaterial
    /\ UNCHANGED notAdept

\* print("Found {0:d} keys"); return keys, names
AdeptReturn ==
    /\ apc = "loop"
    /\ idx > Len(akeymaterial.keys)
    /\ apc' = "done"
    /\ UNCHANGED <<akeymaterial, idx, keys, names, plains, aerror>>
    /\ UNCHANGED notAdept

AdeptInit ==
    /\ apc = "obtain"
    /\ akeymaterial = KeyMaterial
    /\ idx = 1
    /\ keys = <<>>
    /\ names = <<>>
    /\ plains = <<>>
    /\ aerror = ""

\* adeptkeys is not running
AdeptIdle ==
    /\ apc = "idle"
    /\ akeymaterial = KeyMaterial
    /\ idx = 1
    /\ keys = <<>>
    /\ names = <<>>
    /\ plains = <<>>
    /\ aerror = ""


(***************************************************************************)
(* kindlekey_windows_cud.cli_main: the Kindle unwrap delegate.             *)
(***************************************************************************)
\* class KeyData
KeyData(enc, ent, fl, pl) ==
    [encrypted |-> enc, entropy |-> ent, flags |-> fl, plaintext |-> pl]

\* what a path holds: nothing, bytes that are no pickle, or the pickle of an
\* object of some class
Absent == [kind |-> "absent"]
Garbage == [kind |-> "garbage"]
Pickled(class, obj) == [kind |-> "pickle", class |-> class, state |-> obj]

\* the working directory of the delegate
Cwd == "C:\\w"

\* os.path.isabs
IsAbs(name) == Len(name) >= 3 /\ SubSeq(name, 2, 3) = ":\\"

\* os.path.abspath of a relative name
AbsPath(name) == Cwd \o "\\" \o name

CudPaths == {AbsPath("k.pickle"), AbsPath("o.pickle")}

\* the records a caller hands over: plaintext still empty, or left from before
KeyDatas ==
    {KeyData(enc, ent, fl, <<>>) : enc \in {<<7, 1>>, <<8>>}, ent \in {<<>>, <<5>>},
                                   fl \in {0, 1}}
        \cup {KeyData(<<7, 1>>, <<5>>, 1, <<4>>)}

CudFiles ==
    {Absent, Garbage, Pickled("KeyEnvData", KeyEnvData)}
        \cup {Pickled("KeyData", kd) : kd \in KeyDatas}

\* argv[1:]
CudArgvs ==
    {<<>>, <<"-h">>, <<"-x">>, <<"k.pickle">>, <<AbsPath("k.pickle")>>,
     <<AbsPath("o.pickle")>>, <<"k.pickle", "o.pickle">>, <<"-h", "k.pickle">>}

\* getopt.getopt(argv[1:], "h"): the leading options
RECURSIVE Opts(_)
Opts(a) ==
    IF a = <<>> \/ Len(Head(a)) < 2 \/ SubSeq(Head(a), 1, 1) # "-"
    THEN <<>>
    ELSE <<Head(a)>> \o Opts(Tail(a))

\* getopt.getopt(argv[1:], "h"): the arguments after the options
Args(a) == SubSeq(a, Len(Opts(a)) + 1, Len(a))

\* b"failed"
Failed == <<102, 97, 105, 108, 101, 100>>

\* crypt32.CryptUnprotectData succeeds on the blobs the system protected with
\* the same entropy
NativeUnprotects(indata, ent, flags) ==
    \E r \in dpapi : r.blob = indata /\ r.entropy = ent

\* CryptUnprotectData(indata, entropy, flags)
CryptUnprotectData(indata, ent, flags) ==
    IF NativeUnprotects(indata, ent, flags)
    THEN (CHOOSE r \in dpapi : r.blob = indata /\ r.entropy = ent).data
    ELSE Failed

\* sys.exit(code)
CudExit(code) ==
    /\ cpc' = "exited"
    /\ cexit' = code

\* an exception leaves cli_main
CudRaise(e) ==
    /\ cpc' = "raised"
    /\ cerror' = e

\* getopt, -h, len(args) != 1, filepath = args[0] made absolute
ParseArgs ==
    /\ cpc = "getopt"
    /\ IF \E k \in 1..Len(Opts(argv)) : Opts(argv)[k] # "-h"
       THEN CudExit(2) /\ UNCHANGED filepath
       ELSE IF Opts(argv) # <<>>
       THEN CudExit(0) /\ UNCHANGED filepath
       ELSE IF Len(Args(argv)) # 1
       THEN CudExit(2) /\ UNCHANGED filepath
       ELSE /\ filepath' = IF IsAbs(Args(argv)[1]) THEN Args(argv)[1]
                           ELSE AbsPath(Args(argv)[1])
            /\ cpc' = "load"
            /\ UNCHANGED cexit
    /\ UNCHANGED <<argv, disk, diskStart, dpapi, keydata, unwrapped, cerror>>
    /\ UNCHANGED notCud

\* with open(filepath, "rb") as datafile: keydata = pickle.load(datafile)
LoadKeyData ==
    /\ cpc = "load"
    /\ IF disk[filepath].kind = "absent"
       THEN CudRaise("FileNotFoundError") /\ UNCHANGED keydata
       ELSE IF disk[filepath].kind = "garbage"
       THEN CudRaise("UnpicklingError") /\ UNCHANGED keydata
       ELSE /\ keydata' = disk[filepath]
            /\ cpc' = "unprotect"
            /\ UNCHANGED cerror
    /\ UNCHANGED <<argv, disk, diskStart, dpapi, filepath, unwrapped, cexit>>
    /\ UNCHANGED notCud

\* keydata.plaintext = CryptUnprotectData(keydata.encrypted, keydata.entropy,
\*                                        keydata.flags)
Unprotect ==
    /\ cpc = "unprotect"
    /\ IF keydata.class # "KeyData"
       THEN CudRaise("AttributeError") /\ UNCHANGED <<keydata, unwrapped>>
       ELSE LET kd == keydata.state
                out == CryptUnprotectData(kd.encrypted, kd.entropy, kd.flags)
            IN  /\ keydata' = [keydata EXCEPT !.state.plaintext = out]
                /\ unwrapped' = [indata |-> kd.encrypted, entropy |-> kd.entropy,
                                 flags |-> kd.flags, out |-> out]
                /\ cpc' = "dump"
                /\ UNCHANGED cerror
    /\ UNCHANGED <<argv, disk, diskStart, dpapi, filepath, cexit>>
    /\ UNCHANGED notCud

\* DumpKeyData writing the bare name given, in another working directory
DumpKeyDataElsewhere ==
    /\ cpc = "dump"
    /\ disk' = [disk EXCEPT ![AbsPath("o.pickle")] = keydata]
    /\ CudExit(0)
    /\ UNCHANGED <<argv, diskStart, dpapi, filepath, keydata, unwrapped, cerror>>
    /\ UNCHANGED notCud

\* with open(filepath, "wb") as datafile: pickle.dump(keydata, datafile);
\* sys.exit(0)
DumpKeyData ==
    /\ cpc = "dump"
    /\ disk' = [disk EXCEPT ![filepath] = keydata]
    /\ CudExit(0)
    /\ UNCHANGED <<argv, diskStart, dpapi, filepath, keydata, unwrapped, cerror>>
    /\ UNCHANGED notCud

\* the delegate is started on some machine with some arguments
CudInit ==
    /\ argv \in CudArgvs
    /\ disk \in [CudPaths -> CudFiles]
    /\ disk[AbsPath("o.pickle")] \in {Absent, Pickled("KeyData", KeyData(<<8>>, <<>>, 1, <<>>))}
    /\ diskStart = disk
    /\ dpapi \in {{}, {[blob |-> <<7, 1>>, entropy |-> <<5>>, data |-> <<3, 3>>]}}
    /\ cpc = "getopt"
    /\ filepath = ""
    /\ keydata = Absent
    /\ unwrapped = [indata |-> <<>>, entropy |-> <<>>, flags |-> 0, out |-> <<>>]
    /\ cexit = -1
    /\ cerror = ""

\* the delegate is not running
CudIdle ==
    /\ argv = <<>>
    /\ disk = <<>>
    /\ diskStart = <<>>
    /\ dpapi = {}
    /\ cpc = "idle"
    /\ filepath = ""
    /\ keydata = Absent
    /\ unwrapped = [indata |-> <<>>, entropy |-> <<>>, flags |-> 0, out |-> <<>>]
    /\ cexit = -1
    /\ cerror = ""


(***************************************************************************)
(* adobekey.getkey and the same code at the end of adobekey.cli_main:      *)
(* saving the keys.                                                        *)
(***************************************************************************)
OutPath == "/keys"

\* os.path.join(outpath, "adobekey{0:d}_uuid_{1}.der".format(keycount, name))
OutFileName(count, name) ==
    OutPath \o "/" \o "adobekey" \o ToString(count) \o "_uuid_" \o name \o ".der"

\* a key and its label, as adeptkeys returns them at the same index
KeysAndNames == {<<(<<1>>), "Unknown">>, <<(<<2>>), "Unknown">>, <<(<<2>>), "a@b.com">>}

\* what adeptkeys returns or raises
AdeptOutcome(r, ks, ns) == [raises |-> r, keys |-> ks, names |-> ns]

AdeptOutcomes ==
    {AdeptOutcome(TRUE, <<>>, <<>>)}
        \cup {AdeptOutcome(FALSE, [k \in 1..Len(l) |-> l[k][1]], [k \in 1..Len(l) |-> l[k][2]]) :
                  l \in SeqsUpTo(KeysAndNames, MaxKeys)}

\* the files that may lie in the output directory before the call
OldFiles == {OutFileName(1, "Unknown"), OutFileName(2, "Unknown"), OutFileName(2, "a@b.com")}

\* the content of a file that was there before
OldContent == <<0>>

GRaise(e) ==
    /\ gpc' = "raised"
    /\ gerror' = e

\* keys, names = adeptkeys(): getkey passes no arguments, cli_main passes
\* (".", "") under Wine; the Windows/Wine adeptkeys takes two
CallAdeptkeys ==
    /\ gpc = "adeptkeys"
    /\ IF entry = "getkey" /\ platform = "wine"
       THEN GRaise("TypeError") /\ UNCHANGED <<gkeys, gnames>>
       ELSE IF found_keys.raises
       THEN GRaise("ADEPTError") /\ UNCHANGED <<gkeys, gnames>>
       ELSE /\ gkeys' = found_keys.keys
            /\ gnames' = found_keys.names
            /\ gpc' = "mode"
            /\ UNCHANGED gerror
    /\ UNCHANGED <<entry, platform, found_keys, outdisk, outdiskStart, outIsDir, keycount,
                   name_index, outfile, saved, gresult>>
    /\ UNCHANGED notSave

\* what getkey / cli_main returns
Returned(ok) == IF entry = "getkey" THEN (IF ok THEN "True" ELSE "False") ELSE "0"

\* if len(keys) > 0: if not os.path.isdir(outpath): the first key goes to
\* outpath; else: keycount = 0; name_index = 0
ChooseMode ==
    /\ gpc = "mode"
    /\ IF Len(gkeys) = 0
       THEN /\ gpc' = "returned"
            /\ gresult' = Returned(FALSE)
            /\ UNCHANGED <<outdisk, keycount, name_index, outfile>>
       ELSE IF ~outIsDir
       THEN /\ outfile' = OutPath
            /\ outdisk' = (OutPath :> gkeys[1]) @@ outdisk
            /\ gpc' = "returned"
            /\ gresult' = Returned(TRUE)
            /\ UNCHANGED <<keycount, name_index>>
       ELSE /\ keycount' = 0
            /\ name_index' = 0
            /\ gpc' = "name"
            /\ UNCHANGED <<outdisk, outfile, gresult>>
    /\ UNCHANGED <<entry, platform, found_keys, outdiskStart, outIsDir, gkeys, gnames,
                   saved, gerror>>
    /\ UNCHANGED notSave

\* os.path.exists(outfile)
Exists(name) == name \in DOMAIN outdisk

\* NextOutFile without the test of os.path.exists
NextOutFileNoSkip ==
    /\ gpc = "name"
    /\ keycount' = keycount + 1
    /\ outfile' = OutFileName(keycount + 1, gnames[name_index + 1])
    /\ gpc' = "write"
    /\ UNCHANGED <<entry, platform, found_keys, outdisk, outdiskStart, outIsDir, gkeys,
                   gnames, name_index, saved, gresult, gerror>>
    /\ UNCHANGED notSave

\* one turn of "while True": keycount += 1; outfile = ...; if not
\* os.path.exists(outfile): break
NextOutFile ==
    /\ gpc = "name"
    /\ keycount' = keycount + 1
    /\ outfile' = OutFileName(keycount + 1, gnames[name_index + 1])
    /\ gpc' = IF Exists(OutFileName(keycount + 1, gnames[name_index + 1]))
              THEN "name" ELSE "write"
    /\ UNCHANGED <<entry, platform, found_keys, outdisk, outdiskStart, outIsDir, gkeys,
                   gnames, name_index, saved, gresult, gerror>>
    /\ UNCHANGED notSave

\* with open(outfile, 'wb') as keyfileout: keyfileout.write(key);
\* name_index += 1; the next key, or the return
WriteKey ==
    /\ gpc = "write"
    /\ outdisk' = (outfile :> gkeys[name_index + 1]) @@ outdisk
    /\ saved' = Append(saved, [index |-> name_index + 1, count |-> keycount,
                               file |-> outfile])
    /\ name_index' = name_index + 1
    /\ IF name_index + 1 = Len(gkeys)
       THEN /\ gpc' = "returned"
            /\ gresult' = Returned(TRUE)
       ELSE /\ gpc' = "name"
            /\ UNCHANGED gresult
    /\ UNCHANGED <<entry, platform, found_keys, outdiskStart, outIsDir, gkeys, gnames,
                   keycount, outfile, gerror>>
    /\ UNCHANGED notSave

\* a call of getkey(outpath), or cli_main past its arguments
SaveInit ==
    /\ entry \in {"getkey", "cli_main"}
    /\ platform \in {"wine", "mac"}
    /\ found_keys \in AdeptOutcomes
    /\ platform = "mac" => (found_keys.raises \/ Len(found_keys.keys) = 1)
    /\ outIsDir \in BOOLEAN
    /\ \E old \in SUBSET (IF outIsDir THEN OldFiles ELSE {OutPath}) :
          outdisk = [f \in old |-> OldContent]
    /\ outdiskStart = outdisk
    /\ gpc = "adeptkeys"
    /\ gkeys = <<>>
    /\ gnames = <<>>
    /\ keycount = 0
    /\ name_index = 0
    /\ outfile = ""
    /\ saved = <<>>
    /\ gresult = ""
    /\ gerror = ""

\* neither getkey nor cli_main is running
SaveIdle ==
    /\ entry = "getkey"
    /\ platform = "wine"
    /\ found_keys = AdeptOutcome(TRUE, <<>>, <<>>)
    /\ outIsDir = FALSE
    /\ outdisk = <<>>
    /\ outdiskStart = <<>>
    /\ gpc = "idle"
    /\ gkeys = <<>>
    /\ gnames = <<>>
    /\ keycount = 0
    /\ name_index = 0
    /\ outfile = ""
    /\ saved = <<>>
    /\ gresult = ""
    /\ gerror = ""


(***************************************************************************)
(* adobekey.adeptkeys under isosx.                                         *)
(***************************************************************************)
\* what tree.findtext / tree.find give: None, or the text of the element
None == [none |-> TRUE, text |-> ""]
Text(t) == [none |-> FALSE, text |-> t]

\* the username element: absent, or with its method attribute (if any) and text
NoUsername == [none |-> TRUE, method |-> None, text |-> ""]
Username(method, t) == [none |-> FALSE, method |-> method, text |-> t]

B64Alphabet == "ABCDEFGHIJKLMNOPQRSTUVWXYZabcdefghijklmnopqrstuvwxyz0123456789+/"

\* the six bits a base64 character stands for
B64Value(c) == (CHOOSE k \in 1..Len(B64Alphabet) : SubSeq(B64Alphabet, k, k) = c) - 1

\* b64decode raises binascii.Error on a text it cannot cut into groups of four
B64Raises(t) == Len(t) % 4 # 0

\* the bytes of one group of four characters
B64Group(g) ==
    LET c(k) == SubSeq(g, k, k)
        v(k) == IF c(k) = "=" THEN 0 ELSE B64Value(c(k))
        n == v(1) * 262144 + v(2) * 4096 + v(3) * 64 + v(4)
        b == <<n \div 65536, (n \div 256) % 256, n % 256>>
    IN  IF c(3) = "=" THEN SubSeq(b, 1, 1)
        ELSE IF c(4) = "=" THEN SubSeq(b, 1, 2)
        ELSE b

\* base64.b64decode
RECURSIVE b64decode(_)
b64decode(t) ==
    IF Len(t) < 4 THEN <<>>
    ELSE B64Group(SubSeq(t, 1, 4)) \o b64decode(SubSeq(t, 5, Len(t)))

\* the privateLicenseKey elements: absent, empty, 4 bytes, 28 bytes, malformed
LicenseKeys ==
    {None, Text(""), Text("QkxPQg=="),
     Text("AQIDBAUGBwgJCgsMDQ4PEBESExQVFhcYGRobHA=="), Text("QkxPQ")}

Users == {None, Text("urn:uuid:1234"), Text("urn:uuid")}

Usernames ==
    {NoUsername, Username(Text("email"), "a@b.com"), Username(None, "a@b.com"),
     Username(Text("email"), ""), Username(None, "")}

MRaise(e) ==
    /\ mpc' = "raised"
    /\ merror' = e

\* actpath = findActivationDat(); if actpath is None: raise ADEPTError;
\* userkey = tree.findtext(expr); keyName = ""
ReadActivation ==
    /\ mpc = "find"
    /\ IF ~actpath
       THEN MRaise("ADEPTError: Could not find ADE activation.dat file.")
            /\ UNCHANGED <<userkey, keyName>>
       ELSE /\ userkey' = tree.privateLicenseKey
            /\ keyName' = ""
            /\ mpc' = "user"
            /\ UNCHANGED merror
    /\ UNCHANGED <<actpath, tree, mkeys, mnames>>
    /\ UNCHANGED notMac

\* try: keyName = tree.findtext(exprUUID)[9:] + "_"  except: pass
ReadUser ==
    /\ mpc = "user"
    /\ keyName' = IF tree.user.none THEN keyName
                  ELSE Drop(tree.user.text, 9) \o "_"
    /\ mpc' = "username"
    /\ UNCHANGED <<actpath, tree, userkey, mkeys, mnames, merror>>
    /\ UNCHANGED notMac

\* try: keyName = keyName + tree.find(exprMail).attrib["method"] + "_";
\*      keyName = keyName + tree.findtext(exprMail) + "_"  except: pass
ReadUsername ==
    /\ mpc = "username"
    /\ keyName' = IF tree.username.none \/ tree.username.method.none THEN keyName
                  ELSE keyName \o tree.username.method.text \o "_"
                               \o tree.username.text \o "_"
    /\ mpc' = "name"
    /\ UNCHANGED <<actpath, tree, userkey, mkeys, mnames, merror>>
    /\ UNCHANGED notMac

\* if keyName == "": keyName = "Unknown"  else: keyName = keyName[:-1]
FinishName ==
    /\ mpc = "name"
    /\ keyName' = IF keyName = "" THEN "Unknown"
                  ELSE SubSeq(keyName, 1, Len(keyName) - 1)
    /\ mpc' = "decode"
    /\ UNCHANGED <<actpath, tree, userkey, mkeys, mnames, merror>>
    /\ UNCHANGED notMac

\* userkey = b64decode(userkey); userkey = userkey[26:];
\* return [userkey], [keyName]
DecodeUserkey ==
    /\ mpc = "decode"
    /\ IF userkey.none
       THEN MRaise("TypeError") /\ UNCHANGED <<mkeys, mnames>>
       ELSE IF B64Raises(userkey.text)
       THEN MRaise("binascii.Error") /\ UNCHANGED <<mkeys, mnames>>
       ELSE /\ mkeys' = <<SliceFrom(b64decode(userkey.text), 26)>>
            /\ mnames' = <<keyName>>
            /\ mpc' = "returned"
            /\ UNCHANGED merror
    /\ UNCHANGED <<actpath, tree, userkey, keyName>>
    /\ UNCHANGED notMac

\* adeptkeys() is called on some Mac
MacInit ==
    /\ actpath \in BOOLEAN
    /\ tree \in [privateLicenseKey : LicenseKeys, user : Users, username : Usernames]
    /\ mpc = "find"
    /\ userkey = None
    /\ keyName = ""
    /\ mkeys = <<>>
    /\ mnames = <<>>
    /\ merror = ""

\* adeptkeys (Mac) is not running
MacIdle ==
    /\ actpath = FALSE
    /\ tree = [privateLicenseKey |-> None, user |-> None, username |-> NoUsername]
    /\ mpc = "idle"
    /\ userkey = None
    /\ keyName = ""
    /\ mkeys = <<>>
    /\ mnames = <<>>
    /\ merror = ""


(***************************************************************************)
(* adobekey_windows.obtain_key_material: the entropy handed to             *)
(* CryptUnprotectData.  An account name is a sequence of UTF-16 code       *)
(* units; bytes are numbers 0..255; a 32-bit word is its two 16-bit        *)
(* halves, the integers of TLC ending below 2^31.                          *)
(***************************************************************************)
\* the 32-bit word hi * 2^16 + lo
Word(hi, lo) == [hi |-> hi, lo |-> lo]

\* struct.pack(">I", n)
PackUInt(n) == <<n.hi \div 256, n.hi % 256, n.lo \div 256, n.lo % 256>>

\* struct.pack("<len>s", bytes): cut, or filled with zero bytes
PackBytes(len, bytes) ==
    [k \in 1..len |-> IF k <= Len(bytes) THEN bytes[k] ELSE 0]

\* str.encode("utf-16-le") on code units
RECURSIVE EncodeUtf16le(_)
EncodeUtf16le(units) ==
    IF units = <<>> THEN <<>>
    ELSE <<Head(units) % 256, Head(units) \div 256>> \o EncodeUtf16le(Tail(units))

\* bytes[::2]
EverySecond(bytes) == [k \in 1..((Len(bytes) + 1) \div 2) |-> bytes[2 * k - 1]]

\* Signature keeping the first three bytes
SignatureTop(w) == SubSeq(PackUInt(w), 1, 3)

\* struct.pack(">I", cpuid1())[1:]
Signature(w) == Tail(PackUInt(w))

\* GetUserName2() returning None
NoName == [none |-> TRUE, bytes |-> <<>>]
NameBytes(b) == [none |-> FALSE, bytes |-> b]

\* "GenuineIntel", "AuthenticAMD"
Vendors ==
    {<<71, 101, 110, 117, 105, 110, 101, 73, 110, 116, 101, 108>>,
     <<65, 117, 116, 104, 101, 110, 116, 105, 99, 65, 77, 68>>}

\* 0, 0x12345678, 0x000306A9, 0xFFFFFFFF
Words == {Word(0, 0), Word(4660, 22136), Word(3, 1705), Word(65535, 65535)}

\* "alice", a name of 15 units with units above 255, the empty name
AccountNames ==
    {<<97, 108, 105, 99, 101>>,
     <<321, 117, 107, 97, 115, 122, 45, 75, 111, 119, 97, 108, 115, 107, 105>>,
     <<>>}

\* the registry value Software\Adobe\Adept\Device\username, if there is one,
\* and the name GetUserNameW gives
Machines ==
    [serial : Words \ {Word(3, 1705)}, vendor : Vendors, cpuid1 : Words,
     hasRegName : BOOLEAN, regName : AccountNames, apiName : AccountNames]

\* serial = GetVolumeSerialNumber(root); vendor = cpuid0();
\* signature = struct.pack(">I", cpuid1())[1:]
ReadMachine ==
    /\ epc = "machine"
    /\ serial' = machine.serial
    /\ vendor' = machine.vendor
    /\ signature' = Signature(machine.cpuid1)
    /\ epc' = "user2"
    /\ UNCHANGED <<machine, user, entropy>>
    /\ UNCHANGED notEntropy

\* user = GetUserName2()
ReadUserName2 ==
    /\ epc = "user2"
    /\ user' = IF machine.hasRegName
               THEN NameBytes(EverySecond(EncodeUtf16le(machine.regName)))
               ELSE NoName
    /\ epc' = IF machine.hasRegName THEN "pack" ELSE "user"
    /\ UNCHANGED <<machine, serial, vendor, signature, entropy>>
    /\ UNCHANGED notEntropy

\* if user is None: user = GetUserName()
ReadUserName ==
    /\ epc = "user"
    /\ user' = NameBytes(EverySecond(EncodeUtf16le(machine.apiName)))
    /\ epc' = "pack"
    /\ UNCHANGED <<machine, serial, vendor, signature, entropy>>
    /\ UNCHANGED notEntropy

\* entropy = struct.pack(">I12s3s13s", serial, vendor, signature, user)
PackEntropy ==
    /\ epc = "pack"
    /\ entropy' = PackUInt(serial) \o PackBytes(12, vendor) \o PackBytes(3, signature)
                      \o PackBytes(13, user.bytes)
    /\ epc' = "packed"
    /\ UNCHANGED <<machine, serial, vendor, signature, user>>
    /\ UNCHANGED notEntropy

\* obtain_key_material starts on some machine
EntropyInit ==
    /\ machine \in Machines
    /\ epc = "machine"
    /\ serial = Word(0, 0)
    /\ vendor = <<>>
    /\ signature = <<>>
    /\ user = NoName
    /\ entropy = <<>>

\* the entropy is not being built
EntropyIdle ==
    /\ machine = [serial |-> Word(0, 0), vendor |-> <<>>, cpuid1 |-> Word(0, 0),
                  hasRegName |-> FALSE,
                  regName |-> <<>>, apiName |-> <<>>]
    /\ epc = "idle"
    /\ serial = Word(0, 0)
    /\ vendor = <<>>
    /\ signature = <<>>
    /\ user = NoName
    /\ entropy = <<>>

(***************************************************************************)
(* The programs: one of them runs.                                         *)
(***************************************************************************)
Init ==
    \/ ScanInit /\ KindleIdle /\ WineIdle /\ AdeptIdle /\ CudIdle /\ SaveIdle /\ MacIdle /\ EntropyIdle
    \/ KindleInit /\ ScanIdle /\ WineIdle /\ AdeptIdle /\ CudIdle /\ SaveIdle /\ MacIdle /\ EntropyIdle
    \/ WineInit /\ AdeptInit /\ ScanIdle /\ KindleIdle /\ CudIdle /\ SaveIdle /\ MacIdle /\ EntropyIdle
    \/ CudInit /\ KindleIdle /\ WineIdle /\ AdeptIdle /\ ScanIdle /\ SaveIdle /\ MacIdle /\ EntropyIdle
    \/ SaveInit /\ KindleIdle /\ WineIdle /\ AdeptIdle /\ CudIdle /\ ScanIdle /\ MacIdle /\ EntropyIdle
    \/ MacInit /\ KindleIdle /\ WineIdle /\ AdeptIdle /\ CudIdle /\ SaveIdle /\ ScanIdle /\ EntropyIdle
    \/ EntropyInit /\ KindleIdle /\ WineIdle /\ AdeptIdle /\ CudIdle /\ SaveIdle /\ MacIdle /\ ScanIdle

Next ==
    \/ OpenDevice
    \/ Unwrap
    \/ OpenRoot
    \/ OpenParent
    \/ ScanChild
    \/ EndChildren
    \/ FinishRecord
    \/ KindleEnv
    \/ ResolvePath
    \/ StartSearch
    \/ CheckFile
    \/ KindleReturn
    \/ \E p \in callers : LocateInterp(p)
    \/ \E p \in callers : CheckDir(p)
    \/ \E p \in callers : MakeDirs(p)
    \/ \E p \in callers : Spawn(p)
    \/ \E p \in callers : DelegateDump(p)
    \/ \E p \in callers : DelegateFail(p)
    \/ \E p \in callers : WaitDelegate(p)
    \/ \E p \in callers : CatchCallError(p)
    \/ \E p \in callers : OpenFile(p)
    \/ \E p \in callers : LoadFile(p)
    \/ \E p \in callers : RemoveFile(p)
    \/ Obtain
    \/ CheckKeykey
    \/ DecryptKey
    \/ AdeptReturn
    \/ ParseArgs
    \/ LoadKeyData
    \/ Unprotect
    \/ DumpKeyData
    \/ CallAdeptkeys
    \/ ChooseMode
    \/ NextOutFile
    \/ WriteKey
    \/ ReadActivation
    \/ ReadUser
    \/ ReadUsername
    \/ FinishName
    \/ DecodeUserkey
    \/ ReadMachine
    \/ ReadUserName2
    \/ ReadUserName
    \/ PackEntropy

Spec == Init /\ [][Next]_vars

\* obtain_key_material (Windows) alone: a sequential program, which takes its
\* next step whenever it has one
InitScan == ScanInit /\ KindleIdle /\ WineIdle /\ AdeptIdle /\ CudIdle /\ SaveIdle /\ MacIdle /\ EntropyIdle

NextScan ==
    \/ OpenDevice
    \/ Unwrap
    \/ OpenRoot
    \/ OpenParent
    \/ ScanChild
    \/ EndChildren
    \/ FinishRecord

SpecScanFair == InitScan /\ [][NextScan]_vars /\ WF_vars(NextScan)

\* two invocations of obtain_key_material (Wine) at once
InitConcurrent == ConcurrentInit /\ AdeptIdle /\ ScanIdle /\ KindleIdle /\ CudIdle /\ SaveIdle /\ MacIdle /\ EntropyIdle

NextConcurrent ==
    \/ \E p \in callers : LocateInterp(p)
    \/ \E p \in callers : CheckDir(p)
    \/ \E p \in callers : MakeDirs(p)
    \/ \E p \in callers : Spawn(p)
    \/ \E p \in callers : DelegateDump(p)
    \/ \E p \in callers : DelegateFail(p)
    \/ \E p \in callers : WaitDelegate(p)
    \/ \E p \in callers : CatchCallError(p)
    \/ \E p \in callers : OpenFile(p)
    \/ \E p \in callers : LoadFile(p)
    \/ \E p \in callers : RemoveFile(p)

SpecConcurrent == InitConcurrent /\ [][NextConcurrent]_vars

(***************************************************************************)
(* What the registry scan is expected to return, read off the tree.        *)
(***************************************************************************)
\* the slots before the first one that cannot be opened
RECURSIVE Opened(_)
Opened(slots) ==
    IF slots = <<>> \/ ~Head(slots).present THEN <<>>
    ELSE <<Head(slots)>> \o Opened(Tail(slots))

\* the first n elements of a sequence
Take(seq, n) == SubSeq(seq, 1, IF Len(seq) < n THEN Len(seq) ELSE n)

\* the children of a credential record that a scan bounded at 16 reads
ScannedChildren(rec) == Take(Opened(rec.children), 16)

\* the credential records of the tree, in index order
CredentialRecords ==
    SelectSeq(Opened(registry.entries), LAMBDA e : e.hasType /\ e.type = "credentials")

\* the blob of a record: the value of its last scanned privateLicenseKey child
RECURSIVE BlobOf(_)
BlobOf(children) ==
    IF children = <<>> THEN ""
    ELSE LET last == children[Len(children)] IN
         IF last.type = "privateLicenseKey" /\ last.hasValue THEN last.value
         ELSE BlobOf(SubSeq(children, 1, Len(children) - 1))

\* the fragments of a record, in child-index order
RECURSIVE FragmentsOf(_)
FragmentsOf(children) ==
    IF children = <<>> THEN <<>>
    ELSE LET c == Head(children) IN
         (CASE c.type = "user" -> <<SubSeq(c.value, 10, Len(c.value))>>
            [] c.type = "username" /\ c.hasMethod /\ c.hasValue -> <<c.method, c.value>>
            [] c.type = "username" /\ c.hasMethod /\ ~c.hasValue -> <<c.method>>
            [] c.type = "username" /\ ~c.hasMethod /\ c.hasValue -> <<c.value>>
            [] OTHER -> <<>>)
         \o FragmentsOf(Tail(children))

\* the fragments separated by "_"
RECURSIVE Underscored(_)
Underscored(parts) ==
    IF Len(parts) = 1 THEN parts[1]
    ELSE parts[1] \o "_" \o Underscored(Tail(parts))

ExpectedLabel(rec) ==
    LET parts == FragmentsOf(ScannedChildren(rec)) IN
    IF parts = <<>> THEN "Unknown" ELSE Underscored(parts)

HasBlob(rec) == BlobOf(ScannedChildren(rec)) # ""

\* the returned keys whose blob is not empty
KeysWithBlob ==
    SelectSeq(keymaterial.keys, LAMBDA k : k.encrypted_private_key # "")

\* C4: a credential record with an empty blob contributes no Key: the scan
\* returns as many keys as there are credential records with a non-empty blob.
EmptyBlobSkipped ==
    pc = "done" =>
        Len(keymaterial.keys) = Len(SelectSeq(CredentialRecords, HasBlob))

\* C5: every Key the scan returns has a non-empty uuid_name.
LabelNeverEmpty ==
    pc = "done" =>
        \A k \in 1..Len(keymaterial.keys) : keymaterial.keys[k].uuid_name # ""

\* C6: the label of a record with a non-empty blob is the fragments of its
\* scanned children in child-index order joined with "_", or "Unknown" when
\* there is none.
LabelConstruction ==
    pc = "done" =>
        LET recs == SelectSeq(CredentialRecords, HasBlob) IN
        /\ Len(KeysWithBlob) = Len(recs)
        /\ \A k \in 1..Len(recs) : KeysWithBlob[k].uuid_name = ExpectedLabel(recs[k])

LabelConstructionWitness ==
    /\ pc = "done"
    /\ \E a, b, c \in 1..Len(keymaterial.keys) :
          /\ keymaterial.keys[a].uuid_name = "Unknown"
          /\ keymaterial.keys[b].uuid_name = "23456789_email_a@b.com"
          /\ keymaterial.keys[c].encrypted_private_key # ""

\* C7: only children 0000..0015 of a record are opened, and a
\* privateLicenseKey child at index 16 or higher never becomes the blob.
ChildScanBounded ==
    /\ \A r \in reads : r[2] <= 15
    /\ pc = "finish" =>
          key.encrypted_private_key = BlobOf(ScannedChildren(SlotAt(registry.entries, i)))

ChildScanBoundedWitness ==
    /\ pc = "finish"
    /\ LET ch == SlotAt(registry.entries, i).children IN
          /\ Len(ch) >= 17
          /\ ch[17].type = "privateLicenseKey"
          /\ ch[17].value # ""
    /\ <<i, 15>> \in reads
    /\ key.encrypted_private_key = ""

\* the tree of the end-to-end scenario: one credential record holding the
\* user, username and privateLicenseKey children, in some order
EndToEndTree ==
    /\ registry.device /\ registry.unwrap = "key" /\ registry.activation
    /\ Len(registry.entries) = 1
    /\ registry.entries[1].type = "credentials"
    /\ LET ch == registry.entries[1].children IN
          /\ Len(ch) = 3
          /\ {ch[1], ch[2], ch[3]} = {UserChild, NameChild, PlkChild}

\* the index of a child in the scenario's record
PositionOf(c) == CHOOSE n \in 1..3 : registry.entries[1].children[n] = c

\* C8 as stated: the scenario yields exactly one Key, labelled
\* "AAA123456789_email_a@b.com".
EndToEndLabelAsStated ==
    (pc = "done" /\ EndToEndTree) =>
        /\ Len(keymaterial.keys) = 1
        /\ keymaterial.keys[1].uuid_name = "AAA123456789_email_a@b.com"

\* C8 amended: the scenario yields exactly one Key, holding the blob; with
\* the user child before the username child its label is
\* "23456789_email_a@b.com" (the 9 characters "UUIDAAAA1" stripped), and
\* with the username child first it is "email_a@b.com_23456789".
EndToEndLabel ==
    (pc = "done" /\ EndToEndTree) =>
        /\ Len(keymaterial.keys) = 1
        /\ keymaterial.keys[1].encrypted_private_key = "QkxPQg=="
        /\ keymaterial.keys[1].uuid_name =
              IF PositionOf(UserChild) < PositionOf(NameChild)
              THEN "23456789_email_a@b.com"
              ELSE "email_a@b.com_23456789"

EndToEndLabelWitness ==
    /\ pc = "done"
    /\ EndToEndTree
    /\ PositionOf(UserChild) < PositionOf(NameChild)
    /\ keymaterial.keys[1].uuid_name = "23456789_email_a@b.com"

(***************************************************************************)
(* The boundary transport and the key decryptor.                           *)
(***************************************************************************)
Finished(p) == wpc[p] \in {"returned", "raised"}

\* C1: when keymaterial.pickle did not exist before the call, it does not
\* exist once the call has finished, whether it returned or raised.
TransferFileRemoved ==
    \A p \in callers :
        (start.file = NoFile /\ Finished(p)) => file = NoFile

\* the call finished by raising on a corrupt file its delegate had written
TransferFileRemovedWitness ==
    /\ callers = {1}
    /\ start.file = NoFile
    /\ delegate[1] = "exited"
    /\ wpc[1] = "raised"
    /\ wexc[1] = "UnpicklingError"
    /\ file = NoFile

\* C2: with no Wine Python interpreter the call returns an empty KeyMaterial,
\* raises nothing, spawns no delegate and creates neither the directory nor
\* the transfer file.
NoInterpreterEmptyResult ==
    \A p \in callers :
        ~python =>
            /\ wpc[p] \in {"start", "returned"}
            /\ wexc[p] = ""
            /\ delegate[p] = "none"
            /\ dirExists = start.dirExists
            /\ file = start.file
            /\ wpc[p] = "returned" =>
                  wresult[p].keykey = <<>> /\ wresult[p].keys = <<>>

NoInterpreterEmptyResultWitness ==
    /\ callers = {1}
    /\ ~python
    /\ wpc[1] = "returned"
    /\ ~dirExists
    /\ ~file.exists

\* has adeptkeys obtained a KeyMaterial and gone past its keykey test
PastKeykeyTest ==
    /\ apc \in {"loop", "done", "raised"}
    /\ wpc[1] = "returned"

\* C3: when the obtained KeyMaterial has an empty keykey, adeptkeys raises
\* ADEPTError before any AES decryption and returns no key, however many
\* Key records the KeyMaterial holds.
EmptyKeykeyRaises ==
    (PastKeykeyTest /\ akeymaterial.keykey = <<>>) =>
        /\ apc = "raised"
        /\ aerror = "ADEPTError: Could not locate privateLicenseKey"
        /\ plains = <<>>
        /\ keys = <<>>
        /\ names = <<>>

EmptyKeykeyRaisesWitness ==
    /\ PastKeykeyTest
    /\ akeymaterial.keykey = <<>>
    /\ Len(akeymaterial.keys) >= 2
    /\ akeymaterial.keys[1].encrypted_private_key # ""
    /\ apc = "raised"

\* is the final byte of a plaintext a pad length: 1..16 and no more than
\* the data holds
PadLengthPlausible(data) ==
    /\ Len(data) > 0
    /\ data[Len(data)] \in 1..16
    /\ data[Len(data)] <= Len(data)

\* C9: a plaintext whose final byte is no pad length (0, more than 16, or
\* more than the data holds) makes adeptkeys signal an error; no key is
\* appended for it.
WrongKeyDetected ==
    \A n \in 1..Len(plains) :
        ~PadLengthPlausible(plains[n]) =>
            /\ apc = "raised"
            /\ Len(keys) < n

(***************************************************************************)
(* The locators on a machine without the protected storage.                *)
(***************************************************************************)
\* the Adobe registry paths are missing
AdobeStorageAbsent == ~registry.device \/ ~registry.activation

\* the Kindle directory, the shell-folder registry values that name it, or
\* all of the known files are missing
KindleStorageAbsent ==
    \/ khost.hasEnv /\ ~khost.envIsDir
    \/ ~khost.hasEnv /\ khost.userShell # "dir" /\ khost.shell # "dir"
    \/ ~khost.hasEnv /\ khost.userShell \in {"nokey", "novalue"}
    \/ khost.files = {}

\* C10: with the protected storage absent, each locator returns an empty
\* result and raises no exception.
AbsenceNonFatal ==
    /\ (pc \in {"done", "raised"} /\ AdobeStorageAbsent) =>
          pc = "done" /\ keymaterial.keys = <<>>
    /\ (kpc \in {"done", "raised"} /\ KindleStorageAbsent) =>
          kpc = "done" /\ kkeymaterial.filenames = <<>>

\* the parent is past pyexec.check_call
PastCall(p) == wpc[p] \in {"open", "load", "finally"} \/ (python /\ Finished(p))

\* a KeyMaterial can be deserialized from what outpath held when it was opened
Deserializable(p) == handle[p].file.exists /\ handle[p].file.valid

\* C12: the parent opens the transfer file only once no delegate is running
\* (the one it spawned has exited); an error of the subprocess call never
\* leaves the function; and, whatever the exit status, the call returns
\* exactly when a KeyMaterial can be deserialized from the output path, and
\* returns that KeyMaterial.
TransportOrdering ==
    \A p \in callers :
        /\ PastCall(p) => delegate[p] # "running"
        /\ wexc[p] \in {"", "FileNotFoundError", "UnpicklingError", "FileExistsError"}
        /\ (python /\ Finished(p)) =>
              /\ wpc[p] = "returned" <=> Deserializable(p)
              /\ wpc[p] = "returned" => wresult[p] = handle[p].file.content

\* the delegate wrote a whole pickle and exited with a nonzero status: the
\* error was caught and the call returned what the file held
TransportOrderingWitness ==
    /\ callers = {1}
    /\ delegate[1] = "exited"
    /\ status[1] = 1
    /\ wpc[1] = "returned"
    /\ wresult[1] = handle[1].file.content
    /\ wresult[1].keys # <<>>

(***************************************************************************)
(* Two invocations at once.                                                *)
(***************************************************************************)
\* C11: in every interleaving of two invocations neither reads, overwrites
\* or deletes the transfer file written by the other's delegate.
TransferFilesDisjoint == foreign = {}


(***************************************************************************)
(* The Kindle unwrap delegate.                                             *)
(***************************************************************************)
\* the delegate has written its record back
Dumped == cpc = "exited" /\ cexit = 0 /\ filepath # ""

\* C13: the delegate writes back, to the path it read, a record whose
\* encrypted, entropy and flags are those it read and whose plaintext is the
\* result of the native unwrap of these three; every other file, and the file
\* itself until then, is as it was.
KeyDataRoundTrip ==
    /\ cpc # "idle" =>
          \A q \in CudPaths : (q # filepath \/ ~Dumped) => disk[q] = diskStart[q]
    /\ Dumped =>
          LET old == diskStart[filepath]
              new == disk[filepath]
          IN  /\ filepath \in {Args(argv)[1], AbsPath(Args(argv)[1])}
              /\ old.kind = "pickle" /\ old.class = "KeyData"
              /\ new.kind = "pickle" /\ new.class = "KeyData"
              /\ new.state.encrypted = old.state.encrypted
              /\ new.state.entropy = old.state.entropy
              /\ new.state.flags = old.state.flags
              /\ unwrapped.indata = old.state.encrypted
              /\ unwrapped.entropy = old.state.entropy
              /\ unwrapped.flags = old.state.flags
              /\ new.state.plaintext = unwrapped.out
              /\ new.state.plaintext =
                     CryptUnprotectData(old.state.encrypted, old.state.entropy,
                                        old.state.flags)

\* a record given by a relative name was unwrapped and written back while
\* another pickle lay next to it
KeyDataRoundTripWitness ==
    /\ Dumped
    /\ argv = <<"k.pickle">>
    /\ disk[filepath].state.plaintext = <<3, 3>>
    /\ diskStart[filepath].state.plaintext = <<>>
    /\ disk[AbsPath("o.pickle")] # Absent


(***************************************************************************)
(* The Kindle locator's result.                                            *)
(***************************************************************************)
\* the order the known files are to be reported in
StatedOrder ==
    <<".kinf2018", ".kinf2011", "Kindle\\storage\\rainier.2.1.1.kinf",
      "Kindle For PC\\storage\\rainier.2.1.1.kinf", "kindle.info">>

EndsWith(name, suffix) ==
    /\ Len(name) >= Len(suffix)
    /\ SubSeq(name, Len(name) - Len(suffix) + 1, Len(name)) = suffix

\* the indices from n on of the known files that exist, ascending
RECURSIVE ExistingFrom(_)
ExistingFrom(n) ==
    IF n > Len(StatedOrder) THEN <<>>
    ELSE (IF n \in khost.files THEN <<n>> ELSE <<>>) \o ExistingFrom(n + 1)

\* C14: once a directory is resolved, the returned filenames are exactly the
\* known files that exist below it, each once, in the order .kinf2018,
\* .kinf2011, Kindle\storage\rainier.2.1.1.kinf,
\* Kindle For PC\storage\rainier.2.1.1.kinf, kindle.info.
KindleFilesInOrder ==
    (kpc = "done" /\ path # "") =>
        LET existing == ExistingFrom(1)
            filenames == kkeymaterial.filenames
        IN  /\ Len(filenames) = Cardinality(khost.files)
            /\ Len(filenames) = Len(existing)
            /\ \A k \in 1..Len(filenames) :
                  /\ filenames[k] = path \o KnownFiles[existing[k]]
                  /\ EndsWith(filenames[k], StatedOrder[existing[k]])
            /\ \A k, l \in 1..Len(filenames) : k # l => filenames[k] # filenames[l]

\* .kinf2011, the Kindle For PC rainier file and kindle.info exist below the
\* directory named by the User Shell Folders value, and were returned
KindleFilesInOrderWitness ==
    /\ kpc = "done"
    /\ path = UserShellPath
    /\ khost.files = {2, 4, 5}
    /\ Len(kkeymaterial.filenames) = 3
    /\ EndsWith(kkeymaterial.filenames[3], "kindle.info")


(***************************************************************************)
(* Saving the keys into a directory.                                       *)
(***************************************************************************)
\* the count the key at index k was saved under, 0 before the first key
CountOf(k) == IF k = 0 THEN 0 ELSE saved[k].count

\* C15: in directory mode the k-th key is written to
\* adobekey<N>_uuid_<names[k]>.der, N being the first count above the
\* previous key's N whose file name does not exist; N only increases, no file
\* that was there before is changed, the keys go to distinct files, each
\* holding keys[k], and at the return every key has been written.
DirectoryModeNaming ==
    (gpc # "idle" /\ outIsDir) =>
        /\ \A f \in DOMAIN outdiskStart :
              f \in DOMAIN outdisk /\ outdisk[f] = outdiskStart[f]
        /\ \A k \in 1..Len(saved) :
              /\ saved[k].index = k
              /\ saved[k].file = OutFileName(saved[k].count, gnames[k])
              /\ saved[k].file \notin DOMAIN outdiskStart
              /\ outdisk[saved[k].file] = gkeys[k]
              /\ saved[k].count > CountOf(k - 1)
              /\ \A n \in (CountOf(k - 1) + 1)..(saved[k].count - 1) :
                    OutFileName(n, gnames[k]) \in DOMAIN outdiskStart
        /\ \A k, l \in 1..Len(saved) : k # l => saved[k].file # saved[l].file
        /\ DOMAIN outdisk = DOMAIN outdiskStart \cup {saved[k].file : k \in 1..Len(saved)}
        /\ keycount >= CountOf(Len(saved))
        /\ gpc = "returned" => Len(saved) = Len(gkeys)

\* two keys with the same label were saved past two files of that label:
\* they went to adobekey3_uuid_Unknown.der and adobekey4_uuid_Unknown.der
DirectoryModeNamingWitness ==
    /\ gpc = "returned"
    /\ outIsDir
    /\ gnames = <<"Unknown", "Unknown">>
    /\ gkeys = <<(<<1>>), (<<2>>)>>
    /\ OutFileName(1, "Unknown") \in DOMAIN outdiskStart
    /\ OutFileName(2, "Unknown") \in DOMAIN outdiskStart
    /\ Len(saved) = 2
    /\ saved[1].file = OutFileName(3, "Unknown")
    /\ saved[2].file = OutFileName(4, "Unknown")
    /\ outdisk[saved[2].file] = <<2>>


(***************************************************************************)
(* adeptkeys on a Mac.                                                     *)
(***************************************************************************)
\* the segments of the label: the user past its 9-character prefix, the
\* method, the account, each only if present
MacSegments ==
    (IF tree.user.none THEN <<>> ELSE <<Drop(tree.user.text, 9)>>)
        \o (IF tree.username.none \/ tree.username.method.none THEN <<>>
            ELSE <<tree.username.method.text>>)
        \o (IF tree.username.none THEN <<>> ELSE <<tree.username.text>>)

\* the fields that are present are well formed: the base64 text can be
\* decoded, the user is longer than its prefix, the account has a text
MacWellFormed ==
    /\ tree.privateLicenseKey.none \/ ~B64Raises(tree.privateLicenseKey.text)
    /\ tree.user.none \/ Len(tree.user.text) > 9
    /\ tree.username.none \/ tree.username.text # ""

\* C16: with an activation.dat located, whichever of privateLicenseKey, user,
\* username (method, text) are present, adeptkeys raises nothing and returns
\* exactly one key, the decoded privateLicenseKey without its first 26 bytes,
\* and exactly one label, the present segments joined by "_", or "Unknown"
\* when there is none.
MacOneKeyOneLabel ==
    (mpc \in {"returned", "raised"} /\ actpath /\ MacWellFormed) =>
        /\ mpc = "returned"
        /\ merror = ""
        /\ Len(mkeys) = 1
        /\ Len(mnames) = 1
        /\ mkeys[1] = SliceFrom(b64decode(tree.privateLicenseKey.text), 26)
        /\ mnames[1] = IF MacSegments = <<>> THEN "Unknown" ELSE Join(MacSegments)


(***************************************************************************)
(* The framing of the decrypted key.                                       *)
(***************************************************************************)
\* C17: for every non-empty plaintext D with last byte p the key returned is
\* D[26 : len(D) - p], and unpad takes exactly p bytes off D, for every p
\* that D can lose, p = 0 included.
KeyFraming ==
    \A n \in 1..Len(keys) :
        LET D == plains[n]
            p == D[Len(D)]
        IN  /\ keys[n] = SubSeq(D, 27, Len(D) - p)
            /\ p <= Len(D) => Len(unpad(D)) = Len(D) - p


(***************************************************************************)
(* What a failing registry read does to the scan.                          *)
(***************************************************************************)
\* the errors of a missing device key, a failed unwrap, a missing subtree root
StructuralErrors ==
    {"ADEPTError: Adobe Digital Editions not activated",
     "ADEPTError: Failed to decrypt user key key (sic)",
     "ADEPTError: Could not locate ADE activation"}

\* C18: only the structural failures leave the scan as an error; a subentry
\* that cannot be read (no default type, no value, no method) is taken as
\* absent, and the scan ends with a Key for every credential record that
\* holds a blob.
SubentryFailuresSwallowed ==
    /\ pc = "raised" => error \in StructuralErrors
    /\ pc = "done" => Len(KeysWithBlob) = Len(SelectSeq(CredentialRecords, HasBlob))


(***************************************************************************)
(* The layout of the entropy.                                              *)
(***************************************************************************)
\* the account name the entropy is built from
AccountName == IF machine.hasRegName THEN machine.regName ELSE machine.apiName

\* the 32 bytes but for the signature: the serial big-endian in bytes 1..4,
\* the vendor in bytes 5..16, the low bytes of the account name's code units
\* in the 13 bytes 20..32, cut or filled with zeros
EntropyFrame ==
    /\ Len(entropy) = 32
    /\ machine.serial.hi = entropy[1] * 256 + entropy[2]
    /\ machine.serial.lo = entropy[3] * 256 + entropy[4]
    /\ \A k \in 1..4 : entropy[k] \in 0..255
    /\ \A k \in 1..12 : entropy[4 + k] = machine.vendor[k]
    /\ \A k \in 1..13 :
          entropy[19 + k] = IF k <= Len(AccountName) THEN AccountName[k] % 256 ELSE 0

\* C19 as stated: the entropy is 32 bytes, and its bytes 17..19 are the three
\* most significant bytes of the feature word w.
EntropyLayoutAsStated ==
    epc = "packed" =>
        /\ EntropyFrame
        /\ entropy[17] = machine.cpuid1.hi \div 256
        /\ entropy[18] = machine.cpuid1.hi % 256
        /\ entropy[19] = machine.cpuid1.lo \div 256

\* C19: the entropy is 32 bytes: the serial as 4 bytes big-endian, the 12
\* vendor bytes, the three least significant bytes of the feature word w in
\* big-endian order, and the low bytes of the account name in a 13-byte field.
EntropyLayout ==
    epc = "packed" =>
        /\ EntropyFrame
        /\ entropy[17] = machine.cpuid1.hi % 256
        /\ entropy[18] = machine.cpuid1.lo \div 256
        /\ entropy[19] = machine.cpuid1.lo % 256

\* the feature word 0x000306A9 gave the signature 03 06 A9 and the registry
\* name of 15 code units was cut to 13 low bytes
EntropyLayoutWitness ==
    /\ epc = "packed"
    /\ machine.cpuid1 = Word(3, 1705)
    /\ SubSeq(entropy, 17, 19) = <<3, 6, 169>>
    /\ machine.hasRegName
    /\ Len(machine.regName) = 15
    /\ entropy[20] = 65
    /\ entropy[32] = 115


(***************************************************************************)
(* The end of the top-level scan.                                          *)
(***************************************************************************)
\* the first index of the Activation subtree that cannot be opened
FirstGap == Len(Opened(registry.entries))

\* C20: the scan opens 0000, 0001, ... one after the other; once in its loop
\* it always comes to its end, which is at the first index that cannot be
\* opened; the entries that are no credential records give no Key and every
\* credential record with a blob before that index gives one.
ScanTerminates ==
    /\ [][i' # i => i' = i + 1]_vars
    /\ [](pc = "done" =>
            /\ i = FirstGap
            /\ Len(keymaterial.keys) <= Len(CredentialRecords)
            /\ Len(KeysWithBlob) = Len(SelectSeq(CredentialRecords, HasBlob)))
    /\ (pc = "loop") ~> (pc = "done" /\ i = FirstGap)

=============================================================================
